---------------------------- MODULE Spec2Model ----------------------------
(***************************************************************************)
(* Model of src/src/tfstep.py: TransitFitStep.__call__ and add_to_fits,    *)
(* for the three steps (modes "all", "even", "odd") of one pipeline        *)
(* context ts.                                                             *)
(*                                                                         *)
(* Units.  Real quantities are carried as integers:                        *)
(*   time, zero_epoch, period   ticks                                      *)
(*   phase                      half ticks                                 *)
(*   duration                   quarter ticks, so that 4*0.5*duration is   *)
(*                              `duration' half ticks                      *)
(*   flux                       halves (1.0 is FluxOne = 2)                *)
(*   k2, depth                  1e-4;  k2 prior bounds 0.5e-4              *)
(*   log likelihoods            1/Milli (fixed point)                      *)
(* The posterior summary is restricted to the columns tc, p, t14, k2 (the  *)
(* medians); the prior widths, the limb darkening priors and the columns   *)
(* only add_to_fits copies to the header are left out.                     *)
(***************************************************************************)
EXTENDS Integers, Sequences, FiniteSets

VARIABLES ts, step, hdr, raised, last, nops, maskEph

vars == <<ts, step, hdr, raised, last, nops, maskEph>>

\* ------------------------------------------------------------------ bounds
NPts == 4

MaxOps == 2

\* --------------------------------------------------------------- constants
FluxOne == 2

Milli == 1000

HalfLog2PiMilli == 919

KTransit == 9

KFlat == 0

K2LoFloor == 2

K2HiFloor == 128

K2HiCap == 7200

\* Python's None is the empty option; a value x is held as Some(x).
None == {}

Some(x) == {x}

The(o) == CHOOSE x \in o : TRUE

Modes == {"all", "even", "odd"}

\* The observation times of the dataset: one point per tick.
Times == [i \in 1..NPts |-> i - 1]

\* Candidate (zero_epoch, period, duration) triples a search or a fit yields.
Ephemerides ==
    { [zero_epoch |-> 2, period |-> 2, duration |-> 3],
      [zero_epoch |-> 5, period |-> 3, duration |-> 1],
      [zero_epoch |-> 2, period |-> 3, duration |-> 1] }

Depths == {1, 4000}

K2Values == {1, 2000, 8000}

\* What a fit can return besides k2: the ephemeris' medians, the white noise
\* and whether the model flux reproduces the observed flux or is flat.
FitResults ==
    { [zero_epoch |-> 2, period |-> 2, duration |-> 3, err |-> 1, exact |-> TRUE],
      [zero_epoch |-> 2, period |-> 2, duration |-> 3, err |-> 2, exact |-> FALSE],
      [zero_epoch |-> 5, period |-> 3, duration |-> 1, err |-> 2, exact |-> FALSE],
      [zero_epoch |-> 2, period |-> 3, duration |-> 1, err |-> 2, exact |-> TRUE] }

\* The light curves: a dip at every second point, or at every third.
Datasets ==
    { [i \in 1..NPts |-> IF i % 2 = 0 THEN 1 ELSE FluxOne],
      [i \in 1..NPts |-> IF i % 3 = 0 THEN 1 ELSE FluxOne] }

\* ----------------------------------------------------------------- helpers
Abs(x) == IF x < 0 THEN -x ELSE x

Max2(a, b) == IF a > b THEN a ELSE b

Min2(a, b) == IF a < b THEN a ELSE b

\* numpy's remainder: the result has the sign of the divisor.
PyMod(a, b) == a - b * (a \div b)

\* Natural logarithm in fixed point (1/Milli, resolution 0.002).
LogMilli(n) ==
    CASE n = 1 -> 0
      [] n = 2 -> 694
      [] n = 3 -> 1098
      [] n = 4 -> 1386
      [] n = 5 -> 1610
      [] n = 6 -> 1792
      [] n = 7 -> 1946
      [] OTHER -> 2080

RECURSIVE SumSeq(_)
SumSeq(s) == IF s = <<>> THEN 0 ELSE Head(s) + SumSeq(Tail(s))

RECURSIVE MaxSeq(_)
MaxSeq(s) == IF Len(s) = 1 THEN s[1] ELSE Max2(Head(s), MaxSeq(Tail(s)))

RECURSIVE SortSet(_)
SortSet(S) ==
    IF S = {} THEN <<>>
    ELSE LET m == CHOOSE x \in S : \A y \in S : x <= y
         IN  <<m>> \o SortSet(S \ {m})

\* a[mask]: the elements of a at the indices where mask is true, in order.
RECURSIVE Take(_, _, _)
Take(a, mask, n) ==
    IF n = 0 THEN <<>>
    ELSE Take(a, mask, n - 1) \o (IF mask[n] THEN <<a[n]>> ELSE <<>>)

Masked(a, mask) == Take(a, mask, Len(a))

\* ------------------------------------------------- the program's functions

\* pytransit.orbits.epoch (line 152): the integer index of the transit
\* nearest to `time`, taken as floor((time - zero_epoch) / period + 0.5).
epoch(time, zero_epoch, period) == (2 * (time - zero_epoch) + period) \div (2 * period)

\* fold(time, period, zero_epoch, 0.5) * period, in half ticks: the time since
\* the start of the orbit, mid-transit at 0.5*period.
fold(time, period, zero_epoch) == PyMod(2 * (time - zero_epoch) + period, 2 * period)

\* ts.update_ephemeris: stores the ephemeris and refolds the light curve.
update_ephemeris(t, zero_epoch, period, duration, depth) ==
    [t EXCEPT !.zero_epoch = zero_epoch,
              !.period = period,
              !.duration = duration,
              !.depth = depth,
              !.phase = [i \in 1..NPts |-> fold(t.time[i], period, zero_epoch)]]

\* delta_bic with the two parameter counts exchanged.
DeltaBicExchanged(dll, d1, d2, n) == dll + ((d2 - d1) * LogMilli(n)) \div 2

\* delta_bic(dll, d1, d2, n) = dll + 0.5 * (d1 - d2) * log(n)
delta_bic(dll, d1, d2, n) == dll + ((d1 - d2) * LogMilli(n)) \div 2

\* Lines 152-163: the selection mask of a step of mode `mode`.
ParityMaskOddAsEven(mode, ep) ==
    CASE mode = "all" -> TRUE
      [] mode = "even" -> PyMod(ep, 2) = 0
      [] mode = "odd" -> PyMod(ep, 2) = 0

ParityMask(mode, ep) ==
    CASE mode = "all" -> TRUE
      [] mode = "even" -> PyMod(ep, 2) = 0
      [] mode = "odd" -> PyMod(ep, 2) = 1

EpochsOf(t) == [i \in 1..NPts |-> epoch(t.time[i], t.zero_epoch, t.period)]

InWindow(t, i) == Abs(t.phase[i] - t.period) < t.duration

ComputeMask(t, mode) ==
    [i \in 1..NPts |-> ParityMask(mode, EpochsOf(t)[i]) /\ InWindow(t, i)]

\* Lines 176-186: the priors set on the log posterior function.
K2PriorAll(depth) == [lo |-> depth, hi |-> 4 * depth]

K2PriorRef(k2) ==
    [lo |-> Max2(K2LoFloor, k2), hi |-> Max2(K2HiFloor, Min2(K2HiCap, 4 * k2))]

SetPriors(t, mode, pr) ==
    IF mode = "all"
    THEN [tc |-> t.zero_epoch, p |-> t.period, k2 |-> K2PriorAll(t.depth)]
    ELSE [tc |-> pr.tc, p |-> pr.p, k2 |-> K2PriorRef(pr.k2)]

\* Lines 214-216: lnlike_normal(o, m, e), in 1/Milli.
SqResiduals(o, m, e) ==
    [i \in 1..Len(o) |-> (Milli * (o[i] - m[i]) * (o[i] - m[i])) \div (e * e)]

lnlike_normal(o, m, e) ==
    - Len(o) * LogMilli(e) - Len(o) * HalfLog2PiMilli - SumSeq(SqResiduals(o, m, e)) \div 2

Flat(n) == [i \in 1..n |-> FluxOne]

\* Lines 210-220: unique(epochs) and the per-orbit log likelihood difference.
Unique(epochs) == SortSet({epochs[i] : i \in 1..Len(epochs)})

EpochIs(epochs, e) == [i \in 1..Len(epochs) |-> epochs[i] = e]

\* The two likelihoods subtracted the other way round.
OrbitDllReversed(epochs, fobs, fmod, err, e) ==
    LET m == EpochIs(epochs, e)
    IN  lnlike_normal(Masked(fobs, m), Flat(Len(Masked(fobs, m))), err)
        - lnlike_normal(Masked(fobs, m), Masked(fmod, m), err)

OrbitDll(epochs, fobs, fmod, err, e) ==
    LET m == EpochIs(epochs, e)
    IN  lnlike_normal(Masked(fobs, m), Masked(fmod, m), err)
        - lnlike_normal(Masked(fobs, m), Flat(Len(Masked(fobs, m))), err)

DllValues(epochs, fobs, fmod, err) ==
    LET ues == Unique(epochs)
    IN  [i \in 1..Len(ues) |-> OrbitDll(epochs, fobs, fmod, err, ues[i])]

\* Lines 278-279: log(exp(ll - lm).mean()) + lm, kept as the expression's
\* operands: lm and the exponents ll - lm.
LogMeanExp(ll) ==
    LET lm == MaxSeq(ll)
    IN  [lm |-> lm, exponents |-> [i \in 1..Len(ll) |-> ll[i] - lm]]

\* Card(keyword, value); the keyword is upper-cased by Card.
ModeTag(mode) == CASE mode = "all" -> "A" [] mode = "even" -> "E" [] mode = "odd" -> "O"

Card(kw, value) == [kw |-> kw, value |-> value]

Comment(text) == Card(<<"COMMENT">>, text)

TF(c, name) == <<"TF", c, name>>

\* ------------------------------------------------------------------- state

\* TransitFitStep.__init__ (delta_bic is no attribute until a fit sets it).
NewStep(mode) ==
    [mode |-> mode, title |-> mode, lpf |-> None, mask |-> None, time |-> None,
     fobs |-> None, fmod |-> None, dll_epochs |-> None, dll_values |-> None,
     parameters |-> None, period |-> None, zero_epoch |-> None,
     duration |-> None, depth |-> None, delta_bic |-> None]

\* The context as the search step leaves it: a dataset and a coarse ephemeris.
NewContext(flux, e, depth) ==
    update_ephemeris(
        [time |-> Times, flux |-> flux, phase |-> Times, zero_epoch |-> 0,
         period |-> 1, duration |-> 1, depth |-> 0, dbic |-> None,
         transit_fits |-> {}, transit_fit_masks |-> [m \in Modes |-> None]],
        e.zero_epoch, e.period, e.duration, depth)

Init ==
    /\ \E flux \in Datasets, e \in Ephemerides, depth \in Depths :
           ts = NewContext(flux, e, depth)
    /\ step = [m \in Modes |-> NewStep(m)]
    /\ hdr = <<>>
    /\ raised = "none"
    /\ last = [op |-> "__init__", self |-> "all", initialize_only |-> FALSE]
    /\ nops = 0
    /\ maskEph = [m \in Modes |-> None]

\* ------------------------------------------------ TransitFitStep.__call__

Ephemeris(t) == [zero_epoch |-> t.zero_epoch, period |-> t.period, duration |-> t.duration]

\* Lines 150 and 165: the step and its mask are registered on the context.
Registered(t, s, mask) ==
    [t EXCEPT !.transit_fits = @ \cup {s}, !.transit_fit_masks[s] = Some(mask)]

\* Lines 165-169: the step keeps the mask and the retained observations.
Retained(self, t, mask) ==
    [self EXCEPT !.mask = Some(mask),
                 !.time = Some(Masked(t.time, mask)),
                 !.fobs = Some(Masked(t.flux, mask))]

\* Lines 173-174: SearchLPF over the retained observations, priors not yet set.
SearchLPF(times, fluxes) == [times |-> times, fluxes |-> fluxes, priors |-> None]

NoPoint(mask) == \A i \in 1..NPts : ~mask[i]

\* ts.tf_all.parameters, read by the even and odd steps (line 181).
ReferenceReady(s) == s = "all" \/ step["all"].parameters # None

Reference == IF step["all"].parameters = None THEN None ELSE The(step["all"].parameters)

\* Lines 171-186 when no exception is raised: the lpf with its priors set.
Initialized(self, s) ==
    [self EXCEPT !.lpf = Some([SearchLPF(The(self.time), The(self.fobs))
                                 EXCEPT !.priors = Some(SetPriors(ts, s, Reference))])]

\* `last' records the call and its arguments, maskEph the ephemeris the mask
\* was computed from; nops bounds the length of a run.
Bookkeeping(s, initialize_only) ==
    /\ nops < MaxOps
    /\ last' = [op |-> "__call__", self |-> s, initialize_only |-> initialize_only]
    /\ nops' = nops + 1
    /\ maskEph' = [maskEph EXCEPT ![s] = Some(Ephemeris(ts))]
    /\ UNCHANGED hdr

\* min() of an empty array raises at line 171.
CallEmptyMask(s) ==
    \E mask \in {ComputeMask(ts, s)} :
        /\ NoPoint(mask)
        /\ ts' = Registered(ts, s, mask)
        /\ step' = [step EXCEPT ![s] = Retained(step[s], ts, mask)]
        /\ raised' = "ValueError"
        /\ \E b \in BOOLEAN : Bookkeeping(s, b)

\* An even or odd step called before the all step has a result: pr is None
\* and pr.tc raises at line 182, after the lpf is stored.
CallNoReference(s) ==
    \E mask \in {ComputeMask(ts, s)} :
    \E self \in {Retained(step[s], ts, mask)} :
        /\ ~NoPoint(mask)
        /\ ~ReferenceReady(s)
        /\ ts' = Registered(ts, s, mask)
        /\ step' = [step EXCEPT ![s] =
                       [self EXCEPT !.lpf = Some(SearchLPF(The(self.time), The(self.fobs)))]]
        /\ raised' = "AttributeError"
        /\ \E b \in BOOLEAN : Bookkeeping(s, b)

\* The optimizer or the sampler raises (lines 199-200); nothing is caught.
CallFitRaises(s) ==
    \E mask \in {ComputeMask(ts, s)} :
    \E self \in {Retained(step[s], ts, mask)} :
        /\ ~NoPoint(mask)
        /\ ReferenceReady(s)
        /\ ts' = Registered(ts, s, mask)
        /\ step' = [step EXCEPT ![s] = Initialized(self, s)]
        /\ raised' = "FitError"
        /\ Bookkeeping(s, FALSE)

\* The medians a fit can return lie in the support of the k2 prior; an empty
\* support leaves the sampler's result open.
InSupport(prior, k2) == prior.lo >= prior.hi \/ (prior.lo <= 2 * k2 /\ 2 * k2 <= prior.hi)

\* Lines 201-229: the step after a fit with posterior medians df (wn is the
\* white noise 10 ** pv[7]) and model flux fmod.
Fitted(self, epochs, df, fmod) ==
    [self EXCEPT !.fmod = Some(fmod),
                 !.parameters = Some(df),
                 !.dll_epochs = Some(Unique(epochs)),
                 !.dll_values = Some(DllValues(epochs, The(self.fobs), fmod, df.wn)),
                 !.zero_epoch = Some(df.tc),
                 !.period = Some(df.p),
                 !.duration = Some(df.t14),
                 !.depth = Some(df.k2)]

\* Line 231: the modes whose fit is scored.
ScoredAnyMode(mode) == TRUE

ScoredMode(mode) == mode = "all"

\* Line 232.
Scored(self) ==
    delta_bic(SumSeq(The(self.dll_values)), KFlat, KTransit, Len(The(self.time)))

\* Line 233.
Published(t, self) ==
    update_ephemeris(t, The(self.zero_epoch), The(self.period), The(self.duration),
                     The(self.depth))

\* Lines 150-233 when nothing raises and line 197 does not return.
FitCompletes(s, initialize_only) ==
    \E mask \in {ComputeMask(ts, s)} :
        /\ ~NoPoint(mask)
        /\ ReferenceReady(s)
        /\ \E init \in {Initialized(Retained(step[s], ts, mask), s)} :
           \E epochs \in {Masked(EpochsOf(ts), mask)}, fobs \in {The(init.fobs)} :
           \E r \in FitResults, k2 \in K2Values :
           \E fmod \in {IF r.exact THEN fobs ELSE Flat(Len(fobs))} :
           \E df \in {[tc |-> r.zero_epoch, p |-> r.period, t14 |-> r.duration, k2 |-> k2,
                        wn |-> r.err]} :
           \E fit \in {Fitted(init, epochs, df, fmod)} :
           \E self \in {IF ScoredMode(s) THEN [fit EXCEPT !.delta_bic = Some(Scored(fit))]
                         ELSE fit} :
               /\ InSupport(The(The(init.lpf).priors).k2, k2)
               /\ step' = [step EXCEPT ![s] = self]
               /\ ts' = Published(IF ScoredMode(s)
                                   THEN [Registered(ts, s, mask) EXCEPT !.dbic = self.delta_bic]
                                   ELSE Registered(ts, s, mask),
                                   self)
        /\ raised' = "none"
        /\ Bookkeeping(s, initialize_only)

\* The fit runs to completion (lines 199-233).
CallFitCompletes(s) == FitCompletes(s, FALSE)

\* Line 196 without its return.
CallInitializeOnlyFits(s) == FitCompletes(s, TRUE)

\* initialize_only = True: returns at line 197.
CallInitializeOnly(s) ==
    \E mask \in {ComputeMask(ts, s)} :
    \E self \in {Retained(step[s], ts, mask)} :
        /\ ~NoPoint(mask)
        /\ ReferenceReady(s)
        /\ ts' = Registered(ts, s, mask)
        /\ step' = [step EXCEPT ![s] = Initialized(self, s)]
        /\ raised' = "none"
        /\ Bookkeeping(s, TRUE)

\* ---------------------------------------------- TransitFitStep.add_to_fits

\* Lines 241-243.
TitleCards(self) ==
    <<Comment("======================"), Comment(self.title),
      Comment("======================")>>

\* Lines 244-273, for the columns of the posterior summary the model keeps.
ParameterCards(c, p) ==
    <<Card(TF(c, "_T0"), p.tc), Card(TF(c, "_PR"), p.p), Card(TF(c, "_AR"), p.k2),
      Card(TF(c, "_T14"), p.t14), Card(TF(c, "_WN"), p.wn)>>

\* Lines 278-279.
MeanCard(c, ll) == <<Card(TF(c, "_DLLA"), LogMeanExp(ll))>>

\* Lines 281 and 285: the two parity selections of the all step's orbits.
FirstSplit(ep) == [i \in 1..Len(ep) |-> PyMod(ep[i], 2) = 0]

SecondSplit(ep) == [i \in 1..Len(ep) |-> PyMod(ep[i], 2) # 0]

\* Lines 283 and 287: the keywords the two selections are written under.
FirstSplitCard(value) == Card(<<"TF", "A", "_DLLO">>, value)

SecondSplitCard(value) == Card(<<"TF", "A", "_DLLE">>, value)

AddBookkeeping(s) ==
    /\ nops < MaxOps
    /\ nops' = nops + 1
    /\ last' = [op |-> "add_to_fits", self |-> s, initialize_only |-> FALSE]
    /\ UNCHANGED <<ts, step, maskEph>>

\* Line 237: nothing is written for a step without an lpf.
AddToFitsNoLpf(s) ==
    /\ step[s].lpf = None
    /\ hdr' = hdr
    /\ raised' = "none"
    /\ AddBookkeeping(s)

\* p is None: p.tc raises at line 244, after the title cards.
AddToFitsNoParameters(s) ==
    /\ step[s].lpf # None
    /\ step[s].parameters = None
    /\ hdr' = hdr \o TitleCards(step[s])
    /\ raised' = "AttributeError"
    /\ AddBookkeeping(s)

\* Lines 237-288 for a step with a posterior summary.
AddToFitsWritten(self) ==
    LET c  == ModeTag(self.mode)
        ep == The(self.dll_epochs)
        ll == The(self.dll_values)
        common == TitleCards(self) \o ParameterCards(c, The(self.parameters)) \o MeanCard(c, ll)
        first == Masked(ll, FirstSplit(ep))
        second == Masked(ll, SecondSplit(ep))
    IN  IF self.mode # "all" THEN [cards |-> common, raised |-> "none"]
        ELSE IF first = <<>> THEN [cards |-> common, raised |-> "ValueError"]
        ELSE IF second = <<>>
             THEN [cards |-> common \o <<FirstSplitCard(LogMeanExp(first))>>,
                   raised |-> "ValueError"]
        ELSE [cards |-> common \o <<FirstSplitCard(LogMeanExp(first)),
                                    SecondSplitCard(LogMeanExp(second))>>,
              raised |-> "none"]

AddToFits(s) ==
    /\ step[s].lpf # None
    /\ step[s].parameters # None
    /\ \E w \in {AddToFitsWritten(step[s])} :
          /\ hdr' = hdr \o w.cards
          /\ raised' = w.raised
    /\ AddBookkeeping(s)

Next ==
    \E s \in Modes :
        \/ CallEmptyMask(s)
        \/ CallNoReference(s)
        \/ CallInitializeOnly(s)
        \/ CallFitRaises(s)
        \/ CallFitCompletes(s)
        \/ AddToFitsNoLpf(s)
        \/ AddToFitsNoParameters(s)
        \/ AddToFits(s)

Spec == Init /\ [][Next]_vars

\* ------------------------------------------------------------------ claims

\* The last operation was a call of step s that ran its fit to completion.
Completed(s) ==
    /\ last.op = "__call__"
    /\ last.self = s
    /\ ~last.initialize_only
    /\ raised = "none"

CompletedNext(s) ==
    /\ last'.op = "__call__"
    /\ last'.self = s
    /\ ~last'.initialize_only
    /\ raised' = "none"

SameEphemeris(a, b) == maskEph[a] # None /\ maskEph[a] = maskEph[b]

StoredMask(m) == The(ts.transit_fit_masks[m])

\* C1: for masks computed from one ephemeris (and the one dataset), every
\* point selected in mode even or odd is selected in mode all, and no point is
\* selected in both even and odd, negative epoch indices included.
C1_MaskPartition ==
    /\ \A m \in {"even", "odd"} :
          SameEphemeris(m, "all") =>
             \A i \in 1..NPts : StoredMask(m)[i] => StoredMask("all")[i]
    /\ SameEphemeris("even", "odd") =>
          \A i \in 1..NPts : ~(StoredMask("even")[i] /\ StoredMask("odd")[i])

\* Both parities were masked under one ephemeris, each selects a point, and a
\* selected point has a negative epoch index.
C1_Witness ==
    /\ SameEphemeris("even", "odd")
    /\ \E i \in 1..NPts : StoredMask("even")[i]
    /\ \E i \in 1..NPts :
          /\ StoredMask("odd")[i]
          /\ epoch(Times[i], The(maskEph["odd"]).zero_epoch, The(maskEph["odd"]).period) < 0

C4_EphemerisFrame ==
    [][(Ephemeris(ts') # Ephemeris(ts) \/ ts'.depth # ts.depth \/ ts'.phase # ts.phase)
         => \E s \in Modes : CompletedNext(s)]_vars

\* A call returned at initialize_only or raised in the fit, on a context
\* whose ephemeris an earlier fit had set.
C4_Witness ==
    /\ last.op = "__call__"
    /\ last.initialize_only \/ raised = "FitError"
    /\ step[last.self].lpf # None
    /\ step["all"].parameters # None

\* C6: a call of an even or odd step, whatever its outcome, leaves ts.dbic
\* unchanged and sets no delta_bic on the step.
C6_ScoreOnlyAll ==
    [][(last'.op = "__call__" /\ last'.self # "all")
         => (ts'.dbic = ts.dbic /\ step'[last'.self].delta_bic = None)]_vars

\* An even or odd fit ran to completion after the all fit had set the score.
C6_Witness ==
    /\ \E s \in {"even", "odd"} : Completed(s) /\ step[s].dll_values # None
    /\ ts.dbic # None

\* The cards the last writing call of add_to_fits appended after its title.
RECURSIVE LastComment(_)
LastComment(n) ==
    IF n = 0 \/ hdr[n].kw = <<"COMMENT">> THEN n ELSE LastComment(n - 1)

WrittenLast == SubSeq(hdr, LastComment(Len(hdr)) + 1, Len(hdr))

HasCard(cards, kw) == \E i \in 1..Len(cards) : cards[i].kw = kw

CardValue(cards, kw) == cards[CHOOSE i \in 1..Len(cards) : cards[i].kw = kw].value

DLLE == <<"TF", "A", "_DLLE">>

DLLO == <<"TF", "A", "_DLLO">>

\* The dll values of the step's epochs of even, and of odd, index.
EvenDll(self) ==
    LET ep == The(self.dll_epochs)
    IN  Masked(The(self.dll_values), [i \in 1..Len(ep) |-> ep[i] % 2 = 0])

OddDll(self) ==
    LET ep == The(self.dll_epochs)
    IN  Masked(The(self.dll_values), [i \in 1..Len(ep) |-> ep[i] % 2 = 1])

\* C3 as stated: add_to_fits of the all step writes TFA_DLLE from exactly the
\* dll of the epochs of even index and TFA_DLLO from exactly those of odd
\* index; for the even and odd steps it writes neither record.
C3_Original ==
    (last.op = "add_to_fits" /\ step[last.self].parameters # None) =>
       IF last.self = "all"
       THEN raised = "none" =>
               /\ HasCard(WrittenLast, DLLE) /\ HasCard(WrittenLast, DLLO)
               /\ CardValue(WrittenLast, DLLE) = LogMeanExp(EvenDll(step["all"]))
               /\ CardValue(WrittenLast, DLLO) = LogMeanExp(OddDll(step["all"]))
       ELSE ~HasCard(WrittenLast, DLLE) /\ ~HasCard(WrittenLast, DLLO)

\* C5 as stated: a completed even or odd step changes nothing on the context
\* that its sibling reads (the ephemeris and phase the mask is computed from,
\* the all step's result the priors are seeded from).
C5_Original ==
    [][(\E s \in {"even", "odd"} : CompletedNext(s))
         => /\ Ephemeris(ts') = Ephemeris(ts)
            /\ ts'.phase = ts.phase
            /\ step'["all"] = step["all"]]_vars

\* C7 as stated: add_to_fits of a completed all step whose epochs all have one
\* parity raises, and writes no mean dll record for the empty parity.
C7_Original ==
    ( /\ last.op = "add_to_fits"
      /\ last.self = "all"
      /\ step["all"].parameters # None
      /\ EvenDll(step["all"]) = <<>> \/ OddDll(step["all"]) = <<>> ) =>
       /\ raised # "none"
       /\ EvenDll(step["all"]) = <<>> => ~HasCard(WrittenLast, DLLE)
       /\ OddDll(step["all"]) = <<>> => ~HasCard(WrittenLast, DLLO)

\* C8 as stated: the k2 prior of an even or odd step has lower bound >= 0.01^2,
\* upper bound <= 0.6^2 and >= 0.08^2, and lower bound < upper bound.
C8_Original ==
    \A m \in {"even", "odd"} :
       (step[m].lpf # None /\ The(step[m].lpf).priors # None) =>
          LET k2 == The(The(step[m].lpf).priors).k2
          IN  /\ k2.lo >= 2
              /\ k2.hi <= 7200
              /\ k2.hi >= 128
              /\ k2.lo < k2.hi

\* The sum of f over the set S of indices.
RECURSIVE SumOver(_, _)
SumOver(f, S) ==
    IF S = {} THEN 0
    ELSE LET i == CHOOSE x \in S : TRUE IN f[i] + SumOver(f, S \ {i})

\* The retained points of step s, by position, and the epoch index of each
\* under the ephemeris its mask was computed from.
Positions(s) == 1..Len(The(step[s].time))

EpochAt(s) ==
    [j \in Positions(s) |->
        epoch(The(step[s].time)[j], The(maskEph[s]).zero_epoch, The(maskEph[s]).period)]

\* 0.5 * ((o - 1)^2 - (o - m)^2) / err^2 at each retained point, in 1/Milli.
Gain(s) ==
    LET o == The(step[s].fobs)
        m == The(step[s].fmod)
        v == The(step[s].parameters).wn * The(step[s].parameters).wn
    IN  [j \in Positions(s) |->
            (Milli * (o[j] - FluxOne) * (o[j] - FluxOne)) \div (2 * v)
            - (Milli * (o[j] - m[j]) * (o[j] - m[j])) \div (2 * v)]

\* C9: after a completed fit the score table has one entry per distinct epoch
\* index of the retained points, dll[e] is LL(observed, model) - LL(observed,
\* flat = 1) over exactly the retained points of epoch e, and with model =
\* observed it is positive when an observed value of the epoch differs from 1
\* and zero when none does.
C9_PerEpochDll ==
    \A s \in Modes : Completed(s) =>
       LET ues == The(step[s].dll_epochs)
           dll == The(step[s].dll_values)
           pts(e) == {j \in Positions(s) : EpochAt(s)[j] = e}
       IN  /\ Len(dll) = Len(ues)
           /\ {ues[k] : k \in 1..Len(ues)} = {EpochAt(s)[j] : j \in Positions(s)}
           /\ \A k \in 1..Len(ues) : \A l \in 1..Len(ues) : k < l => ues[k] < ues[l]
           /\ \A k \in 1..Len(ues) :
                 /\ dll[k] = SumOver(Gain(s), pts(ues[k]))
                 /\ step[s].fmod = step[s].fobs =>
                       IF \E j \in pts(ues[k]) : The(step[s].fobs)[j] # FluxOne
                       THEN dll[k] > 0
                       ELSE dll[k] = 0

\* A completed fit whose model equals the observations, with an epoch of two
\* points scoring above zero and an epoch without signal scoring zero.
C9_Witness ==
    \E s \in Modes :
       /\ Completed(s)
       /\ step[s].fmod = step[s].fobs
       /\ \E k \in 1..Len(The(step[s].dll_values)) :
             /\ The(step[s].dll_values)[k] > 0
             /\ Cardinality({j \in Positions(s) : EpochAt(s)[j] = The(step[s].dll_epochs)[k]}) = 2
       /\ \E k \in 1..Len(The(step[s].dll_values)) : The(step[s].dll_values)[k] = 0

\* C10 as stated: add_to_fits of a step that never completed a fit appends
\* nothing to the header and raises nothing.
C10_Original ==
    [][(last'.op = "add_to_fits" /\ step[last'.self].parameters = None)
         => (hdr' = hdr /\ raised' = "none")]_vars

=============================================================================
